---------------------------- MODULE Spec2Model ----------------------------
(***************************************************************************)
(* Model of AppComponent (src/app/app.component.ts): a frame-paced work    *)
(* loop that runs outside the Angular zone and re-enters it at fixed       *)
(* checkpoints to publish progress.                                        *)
(*                                                                         *)
(* The browser is single threaded: one handler (the click handler that     *)
(* calls runOutsideAngular(), a requestAnimationFrame callback, a timer    *)
(* callback) runs to completion before the next one starts.  The position  *)
(* of the handler in flight is kept in pc, so that the states inside a     *)
(* zone callback are visible; no other handler is enabled while pc is not  *)
(* "idle".                                                                 *)
(***************************************************************************)
EXTENDS Integers, Sequences, FiniteSets, TLC

\* Program constants: the literals of runOutsideAngular().
Total == 3000
Cadence == 500

\* Bound of the model: the number of times runOutsideAngular() is called.
MaxRuns == 2

\* Bound of the model: the number of additional calls of checkZone().
MaxQueries == 2

\* The workloads of the program as written.
AppConfigs == { <<Total, Cadence>> }

\* Scaled-down workloads <<total, cadence>>, used where runs overlap: total a
\* multiple of the cadence, not a multiple of it, and smaller than it.
SmallConfigs == { <<10, 5>>, <<6, 2>>, <<7, 3>>, <<3, 4>> }

VARIABLES
    progress,       \* signal progress (percent)
    loading,        \* signal loading
    inAngularZone,  \* signal inAngularZone
    total,          \* const total of runOutsideAngular()
    cadence,        \* the checkpoint cadence (the literal of i % 500)
    nruns,          \* number of calls of runOutsideAngular() so far
    i,              \* i[r]: the local counter i of run r
    frames,         \* pending requestAnimationFrame callbacks, oldest first
    timers,         \* number of pending setTimeout callbacks
    zone,           \* zone stack of the executing context, <<>> when idle
    pc,             \* position of the handler in flight
    cur,            \* the run whose step is in flight (0: none)
    status,         \* status[r]: "new", "running", "done" (history)
    log,            \* log[r]: the zone callbacks run r has executed (history)
    steps,          \* steps[r]: executions of step by run r (history)
    toggles,        \* toggles[r]: changes of loading made by run r (history)
    outside,        \* outside[r]: calls of NgZone.runOutsideAngular (history)
    queries         \* calls of checkZone() made from outside the run (history)

vars == << progress, loading, inAngularZone, total, cadence, queries, nruns, i, frames,
           timers, zone, pc, cur, status, log, steps, toggles, outside >>

Runs == 1 .. MaxRuns

-----------------------------------------------------------------------------
(* The zone primitives, as the component uses them. *)

\* NgZone.isInAngularZone(): the innermost zone of the context is Angular's.
IsInAngularZone(z) == z # << >> /\ z[Len(z)] = "angular"

\* this._ngZone.run(fn): fn runs in the Angular zone, nested in the caller's.
ZoneRun(z) == Append(z, "angular")

\* this._ngZone.runOutsideAngular(fn): fn runs in the parent (root) zone.
ZoneRunOutside(z) == Append(z, "root")

\* Mutant of ZoneLeave: the caller's zone is not restored.
ZoneLeaveStay(z) == z

\* Return of a zone primitive: back in the caller's zone.
ZoneLeave(z) == SubSeq(z, 1, Len(z) - 1)

\* The zone of a handler the browser invokes for a user event of the view.
ClickZone == << "angular" >>

\* Mutant of Percent: the share of the work that remains, not the share done.
PercentRemaining(n, t) == (200 * (t - n) + t) \div (2 * t)

\* Mutant of Percent: Math.floor in place of Math.round.
PercentFloor(n, t) == (100 * n) \div t

\* Math.round((i / total) * 100): the quotient i / total taken to a percentage
\* and rounded to the nearest integer, a half rounding up.  The arithmetic is
\* exact here.  The code computes in double precision, which gives the same
\* integer at every iteration at which the code evaluates it (the multiples
\* of the cadence) for the workloads of AppConfigs and SmallConfigs; it
\* differs at other iterations (i = 435 of 3000: 14, exact 15).
Percent(n, t) ==
    LET whole == (100 * n) \div t
        rest  == (100 * n) % t
    IN  IF 2 * rest >= t THEN whole + 1 ELSE whole

\* The value checkZone() writes to inAngularZone.
checkZone(z) == IsInAngularZone(z)

-----------------------------------------------------------------------------
(* Construction: the signals' initial values, then checkZone() in the      *)
(* constructor, which Angular runs inside its zone.                        *)

InitState ==
    /\ progress = 0
    /\ loading = FALSE
    /\ inAngularZone = checkZone(ClickZone)
    /\ nruns = 0
    /\ i = [r \in Runs |-> 0]
    /\ frames = << >>
    /\ timers = 0
    /\ zone = << >>
    /\ pc = "idle"
    /\ cur = 0
    /\ status = [r \in Runs |-> "new"]
    /\ log = [r \in Runs |-> << >>]
    /\ steps = [r \in Runs |-> 0]
    /\ toggles = [r \in Runs |-> 0]
    /\ outside = [r \in Runs |-> 0]
    /\ queries = 0

Init ==
    /\ \E c \in SmallConfigs : total = c[1] /\ cadence = c[2]
    /\ InitState

InitSequential ==
    /\ \E c \in AppConfigs \cup SmallConfigs : total = c[1] /\ cadence = c[2]
    /\ InitState

-----------------------------------------------------------------------------
(* runOutsideAngular(), up to and including the call step() *)

\* Mutant of StartZone: the body is not wrapped in runOutsideAngular.
StartZoneInside == ClickZone

\* The zone in which the body of runOutsideAngular() runs.
StartZone == ZoneRunOutside(ClickZone)

\* loading.set(true) and progress.set(0) at the start of a run.
LoadingAtStart == TRUE

ProgressAtStart == 0

Start ==
    /\ pc = "idle"
    /\ nruns < MaxRuns
    /\ nruns' = nruns + 1
    /\ zone' = StartZone
    /\ outside' = [outside EXCEPT ![nruns + 1] = @ + 1]
    /\ inAngularZone' = checkZone(zone')
    /\ loading' = LoadingAtStart
    /\ progress' = ProgressAtStart
    /\ i' = [i EXCEPT ![nruns + 1] = 0]
    /\ status' = [status EXCEPT ![nruns + 1] = "running"]
    /\ toggles' = [toggles EXCEPT ![nruns + 1] =
                     IF loading' # loading THEN 1 ELSE 0]
    /\ cur' = nruns + 1
    /\ pc' = "step"
    /\ UNCHANGED << total, cadence, queries, frames, timers, log, steps >>

\* The button is not pressed while a run is active.
NoRunActive == \A r \in Runs : status[r] # "running"

StartSequential == NoRunActive /\ Start

(* The browser runs the oldest pending animation-frame callback, in the zone
   in which it was requested. *)
Frame ==
    /\ pc = "idle"
    /\ frames # << >>
    /\ cur' = Head(frames).run
    /\ zone' = << Head(frames).zone >>
    /\ frames' = Tail(frames)
    /\ pc' = "step"
    /\ UNCHANGED << progress, loading, inAngularZone, total, cadence, queries, nruns, i,
                    timers, status, log, steps, toggles, outside >>

\* Mutant of AtCheckpoint: the test is inverted.
AtCheckpointInverted(n, c) == n % c # 0

\* Which branch follows i++: the periodic checkpoint or the continuation test.
AtCheckpoint(n, c) == n % c = 0

\* Mutant of IncrCounter: the counter is one field shared by all runs.
IncrShared(ctr, r) == [q \in DOMAIN ctr |-> ctr[q] + 1]

\* i++ on the counter of run r: i is a local of the call, one per run.
IncrCounter(ctr, r) == [ctr EXCEPT ![r] = @ + 1]

\* step, lines 109-113: i++; checkZone(); the test i % 500 === 0
StepIncr ==
    /\ pc = "step"
    /\ i' = IncrCounter(i, cur)
    /\ steps' = [steps EXCEPT ![cur] = @ + 1]
    /\ inAngularZone' = checkZone(zone)
    /\ pc' = IF AtCheckpoint(i'[cur], cadence) THEN "checkpoint" ELSE "cont"
    /\ UNCHANGED << progress, loading, total, cadence, queries, nruns, frames, timers,
                    zone, cur, status, log, toggles, outside >>

\* step, lines 114-119: the periodic callback, entered through NgZone.run
Checkpoint ==
    /\ pc = "checkpoint"
    /\ zone' = ZoneRun(zone)
    /\ progress' = Percent(i[cur], total)
    /\ inAngularZone' = checkZone(zone')
    /\ timers' = timers + 1
    /\ log' = [log EXCEPT ![cur] =
                 Append(@, [kind |-> "periodic", at |-> i[cur],
                            value |-> progress'])]
    /\ pc' = "checkpoint_ret"
    /\ UNCHANGED << loading, total, cadence, queries, nruns, i, frames, cur, status,
                    steps, toggles, outside >>

\* step, line 120: NgZone.run returns
CheckpointReturn ==
    /\ pc = "checkpoint_ret"
    /\ zone' = ZoneLeave(zone)
    /\ pc' = "cont"
    /\ UNCHANGED << progress, loading, inAngularZone, total, cadence, queries, nruns, i,
                    frames, timers, cur, status, log, steps, toggles, outside >>

\* Mutant of MoreWork: off by one, a frame is requested at i = total too.
MoreWorkInclusive(n, t) == n <= t

\* The test of line 124.
MoreWork(n, t) == n < t

\* The zone an animation-frame request made in context z is bound to.
FrameZone(z) == z[Len(z)]

\* Mutant of RequestFrame: the frame is requested twice.
RequestFrameTwice(fs, f) == Append(Append(fs, f), f)

\* window.requestAnimationFrame(step): one more pending callback.
RequestFrame(fs, f) == Append(fs, f)

\* step, lines 124-125: request the next frame; the handler returns
Schedule ==
    /\ pc = "cont"
    /\ MoreWork(i[cur], total)
    /\ frames' = RequestFrame(frames, [run |-> cur, zone |-> FrameZone(zone)])
    /\ zone' = << >>
    /\ pc' = "idle"
    /\ cur' = 0
    /\ UNCHANGED << progress, loading, inAngularZone, total, cadence, queries, nruns, i,
                    timers, status, log, steps, toggles, outside >>

\* Mutant of CompletionValue: the completion callback resets progress.
CompletionValueReset == ProgressAtStart

\* The value the completion callback publishes.
CompletionValue == 100

\* Mutant of LoadingAtCompletion: the completion callback leaves loading set.
LoadingAtCompletionStuck == TRUE

\* loading.set(false) in the completion callback.
LoadingAtCompletion == FALSE

\* step, lines 126-132: the completion callback, entered through NgZone.run
Complete ==
    /\ pc = "cont"
    /\ ~ MoreWork(i[cur], total)
    /\ zone' = ZoneRun(zone)
    /\ loading' = LoadingAtCompletion
    /\ progress' = CompletionValue
    /\ inAngularZone' = checkZone(zone')
    /\ toggles' = [toggles EXCEPT ![cur] =
                     IF loading' # loading THEN @ + 1 ELSE @]
    /\ status' = [status EXCEPT ![cur] = "done"]
    /\ log' = [log EXCEPT ![cur] =
                 Append(@, [kind |-> "completion", at |-> i[cur],
                            value |-> progress'])]
    /\ pc' = "complete_ret"
    /\ UNCHANGED << total, cadence, queries, nruns, i, frames, timers, cur, steps,
                    outside >>

\* step, lines 133-135: NgZone.run returns; the handler returns
CompleteReturn ==
    /\ pc = "complete_ret"
    /\ zone' = << >>
    /\ pc' = "idle"
    /\ cur' = 0
    /\ UNCHANGED << progress, loading, inAngularZone, total, cadence, queries, nruns, i,
                    frames, timers, status, log, steps, toggles, outside >>

\* The timer of line 119 fires: its callback is empty.
Timeout ==
    /\ pc = "idle"
    /\ timers > 0
    /\ timers' = timers - 1
    /\ UNCHANGED << progress, loading, inAngularZone, total, cadence, queries, nruns, i,
                    frames, zone, pc, cur, status, log, steps, toggles,
                    outside >>

StepActions ==
    \/ Frame
    \/ StepIncr
    \/ Checkpoint
    \/ CheckpointReturn
    \/ Schedule
    \/ Complete
    \/ CompleteReturn
    \/ Timeout

Next == Start \/ StepActions

NextSequential == StartSequential \/ StepActions

\* Runs may overlap: runOutsideAngular() may be called at any idle moment.
Spec == Init /\ [][Next]_vars

\* Runs do not overlap; the workload of the program as written is included.
SpecSequential == InitSequential /\ [][NextSequential]_vars

\* The browser eventually runs every requested callback, and a handler in
\* flight runs to its end; nothing obliges the user to start a run.
Fairness ==
    /\ WF_vars(Frame)
    /\ WF_vars(StepIncr)
    /\ WF_vars(Checkpoint)
    /\ WF_vars(CheckpointReturn)
    /\ WF_vars(Schedule)
    /\ WF_vars(Complete)
    /\ WF_vars(CompleteReturn)
    /\ WF_vars(Timeout)

FairSpec == Spec /\ Fairness

-----------------------------------------------------------------------------
(* A failing periodic callback.  Nothing in step or in NgZone.run catches:  *)
(* an exception raised in the callback of lines 115-120 leaves NgZone.run,  *)
(* step and the handler, so lines 124-134 are not executed.                 *)

\* The statements of the callback completed before the exception is raised:
\* none, progress.set(percent), or progress.set(percent) and checkZone().
ThrowPoints == { "log", "checkZone", "setTimeout" }

\* Mutant of CheckpointThrow: the exception is caught around NgZone.run and
\* step carries on with the test of line 124.
CheckpointThrowCaught ==
    /\ pc = "checkpoint"
    /\ \E at \in ThrowPoints :
        /\ progress' = IF at = "log" THEN progress ELSE Percent(i[cur], total)
        /\ inAngularZone' = IF at = "setTimeout" THEN checkZone(ZoneRun(zone))
                                                 ELSE inAngularZone
    /\ status' = [status EXCEPT ![cur] = "failed"]
    /\ log' = [log EXCEPT ![cur] =
                 Append(@, [kind |-> "thrown", at |-> i[cur],
                            value |-> progress'])]
    /\ pc' = "cont"
    /\ UNCHANGED << loading, total, cadence, queries, nruns, i, frames, timers,
                    zone, cur, steps, toggles, outside >>

\* step, lines 115-120: the periodic callback throws at one of ThrowPoints
CheckpointThrow ==
    /\ pc = "checkpoint"
    /\ \E at \in ThrowPoints :
        /\ progress' = IF at = "log" THEN progress ELSE Percent(i[cur], total)
        /\ inAngularZone' = IF at = "setTimeout" THEN checkZone(ZoneRun(zone))
                                                 ELSE inAngularZone
    /\ status' = [status EXCEPT ![cur] = "failed"]
    /\ log' = [log EXCEPT ![cur] =
                 Append(@, [kind |-> "thrown", at |-> i[cur],
                            value |-> progress'])]
    /\ zone' = << >>
    /\ pc' = "idle"
    /\ cur' = 0
    /\ UNCHANGED << loading, total, cadence, queries, nruns, i, frames, timers,
                    steps, toggles, outside >>

-----------------------------------------------------------------------------
(* checkZone() is a public method: besides the calls of the constructor and *)
(* of runOutsideAngular() it may be called by other code of the executing   *)
(* handler, or on its own from a handler of the view.                       *)

\* The zone of the context in which a call is made now: that of the handler
\* in flight, or that of a new view handler when none is.
Context == IF pc = "idle" THEN ClickZone ELSE zone

\* Mutant of QueryZone: the signal is flipped instead of being set to the
\* status read.
QueryZoneToggling ==
    /\ queries < MaxQueries
    /\ queries' = queries + 1
    /\ inAngularZone' = ~ inAngularZone
    /\ UNCHANGED << progress, loading, total, cadence, nruns, i, frames,
                    timers, zone, pc, cur, status, log, steps, toggles,
                    outside >>

\* checkZone(), lines 78-80, called in the current context
QueryZone ==
    /\ queries < MaxQueries
    /\ queries' = queries + 1
    /\ inAngularZone' = checkZone(Context)
    /\ UNCHANGED << progress, loading, total, cadence, nruns, i, frames,
                    timers, zone, pc, cur, status, log, steps, toggles,
                    outside >>

NextQuery == Start \/ StepActions \/ QueryZone

\* Overlapping runs, with additional calls of checkZone() at any point.
SpecQuery == Init /\ [][NextQuery]_vars

NextFaulty == StartSequential \/ StepActions \/ CheckpointThrow

\* Runs do not overlap, and a periodic callback may throw (scaled workloads).
SpecFaulty == Init /\ [][NextFaulty]_vars

-----------------------------------------------------------------------------
(* Vocabulary of the properties *)

\* A zone callback (periodic or completion) is executing.
InCallback == pc \in { "checkpoint_ret", "complete_ret" }

\* The values run r has published, in order.
Published(r) == [k \in 1 .. Len(log[r]) |-> log[r][k].value]

\* The callbacks run r has executed at iteration n.
EntriesAt(r, n) == { k \in 1 .. Len(log[r]) : log[r][k].at = n }

RunActive == \E r \in Runs : status[r] = "running"

AppWorkload == total = Total /\ cadence = Cadence

-----------------------------------------------------------------------------
\* C1: a completed run of the workload total = 3000, cadence = 500 has
\* published exactly the six values 17, 33, 50, 67, 83, 100, in this order.
C1_SixPublications ==
    \A r \in Runs :
        (AppWorkload /\ status[r] = "done")
            => Published(r) = << 17, 33, 50, 67, 83, 100 >>

\* C2: in the step in which the counter reaches total the boundary is entered
\* once, by the completion callback alone: no periodic callback runs at
\* iteration total.
C2_SingleEntryAtTotal ==
    \A r \in Runs :
        /\ \A k \in EntriesAt(r, total) : log[r][k].kind = "completion"
        /\ status[r] = "done" => Cardinality(EntriesAt(r, total)) = 1

\* C3: in runs that do not overlap, loading is true exactly from the start of
\* a run until its completion callback, and each run changes loading exactly
\* twice (once when it starts, once when it completes).
C3_LoadingLifecycle ==
    /\ loading <=> RunActive
    /\ \A r \in Runs :
        /\ status[r] = "new" => toggles[r] = 0
        /\ status[r] = "running" => toggles[r] = 1
        /\ status[r] = "done" => toggles[r] = 2

\* C3 witness: a run of the program's workload is inside its third periodic
\* checkpoint with loading still true, after an earlier run has completed.
C3_Witness ==
    /\ AppWorkload
    /\ status[1] = "done" /\ toggles[1] = 2
    /\ status[2] = "running" /\ pc = "checkpoint_ret" /\ i[2] = 3 * Cadence
    /\ loading

\* C4: a call of runOutsideAngular() made while a run is active is rejected:
\* it leaves progress and loading unchanged and starts no second step chain.
C4_SecondStartRejected ==
    [][ (RunActive /\ nruns' # nruns)
            => UNCHANGED << progress, loading, i, frames, pc, cur, status >> ]_vars

\* C5: once a run has started, the signal inAngularZone is true only while a
\* periodic or completion callback is executing, and while a handler is in
\* flight it equals the boundary status of the executing context.
C5_ZoneSignalLive ==
    nruns > 0 =>
        /\ inAngularZone => InCallback
        /\ pc \notin { "idle", "step" } => inAngularZone = IsInAngularZone(zone)

\* The callbacks of run r fired at strictly increasing iterations.
StrictlyOrdered(r) ==
    \A k \in 1 .. Len(log[r]) - 1 : log[r][k].at < log[r][k + 1].at

\* C6: within a run the zone callbacks fire at strictly increasing values of
\* the iteration counter, and no counter is incremented while a zone callback
\* is executing.
C6_CallbacksOrdered ==
    [][ /\ InCallback => i' = i
        /\ \A r \in Runs : StrictlyOrdered(r)' ]_vars

\* C7: with every requested callback eventually run, every started run
\* reaches its completion callback; it has then executed exactly total steps,
\* and from then on it has no frame pending and executes no further step.
C7_RunCompletes ==
    \A r \in Runs :
        /\ (status[r] = "running") ~> (status[r] = "done")
        /\ [](status[r] = "done" =>
                /\ steps[r] = total
                /\ i[r] = total
                /\ \A k \in 1 .. Len(frames) : frames[k].run # r
                /\ cur = r => pc = "complete_ret")

\* C7 witness: both runs have completed, after total steps each, and no
\* handler is pending.
C7_Witness ==
    /\ \A r \in Runs : status[r] = "done" /\ steps[r] = total
    /\ pc = "idle" /\ frames = << >>

\* C8 (as stated): progress changes only in a periodic checkpoint callback or
\* in the completion callback; the start of a run leaves it unchanged.
C8_OnlyCallbacksChangeProgress ==
    [][ progress' # progress =>
            \/ pc = "checkpoint" /\ i[cur] % cadence = 0
            \/ pc = "cont" /\ i[cur] = total ]_vars

\* C8 (amended): progress changes only at the start of a run (reset to 0), in
\* a periodic checkpoint callback (iteration a multiple of the cadence) or in
\* the completion callback; every other step leaves it unchanged.
C8_ProgressChangesOnlyAtStartOrCallback ==
    [][ progress' # progress =>
            \/ nruns' = nruns + 1 /\ progress' = 0
            \/ pc = "checkpoint" /\ i[cur] % cadence = 0
            \/ pc = "cont" /\ i[cur] = total ]_vars

\* C8 witness: a step below total that is no multiple of the cadence has run
\* after a publication (progress is 43 at iteration 4 of 7, cadence 3), in a
\* run whose start has reset the progress of an earlier run.
C8_Witness ==
    /\ total = 7 /\ cadence = 3 /\ nruns = 2
    /\ status[1] = "done"
    /\ cur = 2 /\ pc = "cont" /\ i[2] = 4 /\ progress = 43

\* C9: in runs that do not overlap, no step of a run lowers progress: every
\* value a periodic or completion callback writes is at least the value it
\* replaces (only the start of a run resets progress).
C9_ProgressNeverDecreases ==
    [][ nruns' = nruns => progress' >= progress ]_vars

\* C9 witness: the completion callback has replaced the value 86 published
\* at iteration 6 of 7 by 100.
C9_Witness ==
    /\ total = 7 /\ cadence = 3
    /\ pc = "complete_ret" /\ progress = 100
    /\ Published(cur) = << 43, 86, 100 >>

\* C10: NgZone.runOutsideAngular is invoked exactly once per run, every
\* execution of step begins outside the Angular zone, and the zone is entered
\* only in a step whose iteration is a multiple of the cadence or equals
\* total.
C10_OutsideOncePerRun ==
    /\ \A r \in Runs : outside[r] = IF status[r] = "new" THEN 0 ELSE 1
    /\ pc = "step" => ~ IsInAngularZone(zone)
    /\ IsInAngularZone(zone) =>
        /\ InCallback
        /\ i[cur] % cadence = 0 \/ i[cur] = total

\* C10 witness: a frame-scheduled step of a second, overlapping run is about
\* to execute, outside the zone, after the first run has entered the zone.
C10_Witness ==
    /\ pc = "step" /\ cur = 2 /\ i[2] > 0
    /\ status[1] = "running" /\ Len(log[1]) > 0
    /\ ~ IsInAngularZone(zone)

\* Run r has a frame callback pending.
FramePending(r) == \E k \in 1 .. Len(frames) : frames[k].run = r

\* C11: when a periodic callback of a run throws, the run requests no further
\* frame and never executes again: its counter stops, its completion callback
\* never runs, and (until another run is started) loading stays true and
\* progress keeps the value it had when the exception left the callback.
C11_ThrowStopsRun ==
    /\ [](\A r \in Runs : status[r] = "failed" =>
            /\ ~ FramePending(r)
            /\ cur # r
            /\ log[r][Len(log[r])].kind = "thrown"
            /\ nruns = r =>
                /\ pc = "idle"
                /\ loading
                /\ progress = log[r][Len(log[r])].value)
    /\ [][\A r \in Runs : status[r] = "failed" =>
            /\ status'[r] = "failed"
            /\ i'[r] = i[r]
            /\ log'[r] = log[r]]_vars

\* C11 witness: the second periodic callback of a run (total 6, cadence 2)
\* has thrown before publishing, after the first had published 33; the run is
\* stopped at iteration 4 with loading true and progress still 33.
C11_Witness ==
    /\ total = 6 /\ cadence = 2
    /\ status[1] = "failed" /\ i[1] = 4
    /\ pc = "idle" /\ frames = << >> /\ nruns = 1
    /\ loading /\ progress = 33

\* C12: progress is always an integer in 0 .. 100, and the value a periodic
\* checkpoint publishes at iteration n, a multiple of the cadence in
\* 1 .. total, is round(n / total * 100) with halves rounded up, that is
\* floor((200 * n + total) / (2 * total)).
C12_PercentRounded ==
    /\ progress \in 0 .. 100
    /\ \A r \in Runs : \A k \in 1 .. Len(log[r]) :
        log[r][k].kind = "periodic" =>
            /\ log[r][k].at \in 1 .. total
            /\ log[r][k].at % cadence = 0
            /\ log[r][k].value = (200 * log[r][k].at + total) \div (2 * total)

\* C12 witness: the checkpoint at iteration 2500 of 3000 has published 83
\* (83.33 rounded down) after the one at 2000 had published 67 (66.67 rounded
\* up).
C12_Witness ==
    /\ AppWorkload
    /\ pc = "checkpoint_ret" /\ i[cur] = 5 * Cadence /\ progress = 83
    /\ log[cur][4].value = 67

\* C13: in runs that do not overlap, every counter stays in 0 .. total; a
\* run that has started and whose counter is below total has loading true,
\* and loading false means that every run is unstarted or at total.
C13_CounterBounds ==
    \A r \in Runs :
        /\ i[r] \in 0 .. total
        /\ (status[r] # "new" /\ i[r] < total) => loading
        /\ ~ loading => (status[r] = "new" \/ i[r] = total)

\* C13 witness: a second run is under way below total with loading true,
\* while the first run rests at total.
C13_Witness ==
    /\ AppWorkload
    /\ status[1] = "done" /\ i[1] = total
    /\ status[2] = "running" /\ i[2] = total - 1 /\ pc = "idle"
    /\ loading

\* C14: loading is true from the start of every run until that run's own
\* completion callback, also when runs overlap: a run that has not completed
\* never observes loading false, and progress never falls below a value the
\* run has itself published.
C14_RunsIsolated ==
    \A r \in Runs :
        status[r] = "running" =>
            /\ loading
            /\ Len(log[r]) > 0 => progress >= log[r][Len(log[r])].value

\* C15: a call of checkZone() changes nothing but inAngularZone, which it
\* sets to the boundary status of the calling context; a second call in the
\* same context would write the value the first has written (idempotence).
C15_CheckZoneIdempotent ==
    [][ queries' # queries =>
            /\ inAngularZone' = IsInAngularZone(Context)
            /\ IsInAngularZone(Context') = inAngularZone'
            /\ UNCHANGED << progress, loading, i, frames, timers, zone, pc,
                            cur, nruns, status >> ]_vars

\* C15 witness: checkZone() has been called twice, the second time outside
\* the zone right after a periodic callback returned, where it replaced the
\* stale value TRUE by FALSE.
C15_Witness ==
    /\ queries = 2
    /\ pc = "cont" /\ i[cur] % cadence = 0
    /\ ~ IsInAngularZone(zone)
    /\ ~ inAngularZone

\* C16: NgZone.run is synchronous and nested: when a periodic callback has
\* returned, the step continues outside the Angular zone, so every frame
\* continuation is requested from, and bound to, the outside (root) zone.
C16_FrameRequestedOutside ==
    /\ pc \in { "step", "checkpoint", "cont" } => ~ IsInAngularZone(zone)
    /\ \A k \in 1 .. Len(frames) : frames[k].zone = "root"

\* C16 witness: a frame requested right after a periodic callback returned
\* (the run's counter is a multiple of the cadence, below total) is pending,
\* bound to the root zone.
C16_Witness ==
    /\ pc = "idle" /\ Len(frames) = 1
    /\ frames[1].zone = "root"
    /\ i[frames[1].run] > 0
    /\ i[frames[1].run] % cadence = 0

\* The pending frame callbacks of run r.
FramesOf(r) == { k \in 1 .. Len(frames) : frames[k].run = r }

\* C17: a run has at most one frame continuation pending; one is pending
\* only while its counter is below total and its step is not executing; and
\* a run that is neither executing nor completed is suspended on exactly
\* that frame (it is suspended nowhere else).
C17_OnePendingFrame ==
    \A r \in Runs :
        /\ Cardinality(FramesOf(r)) <= 1
        /\ FramePending(r) => (i[r] < total /\ cur # r /\ status[r] = "running")
        /\ (status[r] = "running" /\ cur # r) => FramePending(r)

\* C17 witness: two overlapping runs are suspended, each on its one frame.
C17_Witness ==
    /\ pc = "idle" /\ Len(frames) = 2
    /\ Cardinality(FramesOf(1)) = 1 /\ Cardinality(FramesOf(2)) = 1
    /\ i[1] > i[2] /\ i[2] > 0

\* The iterations at which run r has executed a periodic callback.
PeriodicAt(r) ==
    { log[r][k].at : k \in { j \in 1 .. Len(log[r]) : log[r][j].kind = "periodic" } }

\* The multiples of the cadence run r has passed; the one it is at counts
\* once its callback has run.
CheckpointsDue(r) ==
    { n \in 1 .. i[r] : n % cadence = 0 }
        \ (IF cur = r /\ pc = "checkpoint" THEN { i[r] } ELSE { })

\* C18: the counters are private to the runs, also when runs overlap: a step
\* increments the counter of its own run by one and leaves every other
\* counter alone, each run fires its periodic callbacks at exactly its own
\* multiples of the cadence, and a completed run has made exactly total steps.
C18_CountersPrivate ==
    /\ [](\A r \in Runs :
            /\ PeriodicAt(r) = CheckpointsDue(r)
            /\ steps[r] = i[r]
            /\ status[r] = "done" => steps[r] = total)
    /\ [][\A r \in Runs :
            i'[r] # i[r] => (r = cur /\ pc = "step" /\ i'[r] = i[r] + 1)]_vars

\* C18 witness: two overlapping runs are at different iterations, the later
\* one having fired a periodic callback of its own.
C18_Witness ==
    /\ status[1] = "running" /\ status[2] = "running"
    /\ i[1] > i[2]
    /\ Len(log[2]) > 0 /\ Len(log[1]) > Len(log[2])

\* C19: when at least one run has been started and no run has a frame
\* pending or a step executing, loading is false and progress is 100,
\* however many runs were started and however they overlapped.
C19_QuiescentFinal ==
    (nruns > 0 /\ pc = "idle" /\ frames = << >>) =>
        /\ \A r \in Runs : status[r] \in { "new", "done" }
        /\ ~ loading
        /\ progress = 100

\* C19 witness: two runs, the second started while the first was active
\* (it found loading already true), have both completed.
C19_Witness ==
    /\ nruns = 2 /\ pc = "idle" /\ frames = << >>
    /\ status[1] = "done" /\ status[2] = "done"
    /\ toggles[2] < 2

=============================================================================
